---- MODULE Spec2Model ----
(***************************************************************************)
(* appletree: the traversal-and-filter engine (printTree), the size        *)
(* aggregation (dirSizeRecursive, fileSizeSafe) and the size formatting    *)
(* (formatSize) of the directory tree viewer.                              *)
(*                                                                         *)
(* A std::string is a sequence of one-character strings, so that find,     *)
(* rfind(.., 0) and operator+ are computed character by character.  A      *)
(* fs::path is the sequence of its components, each component a string in  *)
(* that sense.  The file system is a finite tree of directories and        *)
(* regular files without symbolic links, and no file system call fails.    *)
(* The glyphs of the two themes are written in ASCII: "+-- " for the       *)
(* middle branch, "L-- " for the classic last branch, "R-- " for the round *)
(* last branch and "|   " for the vertical bar cell.                       *)
(***************************************************************************)
EXTENDS Integers, Sequences, FiniteSets, TLC

VARIABLES
    tree,          \* the file system below (and including) the root
    root,          \* fs::path root of main
    excludeList,   \* std::unordered_set<std::string> excludeList
    onlyList,      \* std::unordered_set<std::string> onlyList
    maxDepth,      \* std::optional<size_t> maxDepth
    showSizes,     \* bool showSizes
    currentTheme,  \* Theme currentTheme
    pc,            \* position of main: "start", "run", "done"
    stack,         \* the activations of printTree, innermost last
    out,           \* the lines written to standard output, in order
    fmtBytes,      \* argument of a direct call of formatSize
    fmtOut,        \* its result ("" before the call)
    fmtScale,      \* the argument is fmtBytes * 1024^fmtScale
    argv,          \* argv[1..argc-1] of main
    argi,          \* the loop index i of parseArgs
    err,           \* the diagnostics written to the error stream, in order
    usage,         \* whether showHelp has written the usage text
    consumed,      \* history: <<index, role>> of each argument parseArgs has read
    failed         \* history: the entries whose enumeration failed

\* the variables only main's argument parsing touches
parseVars == <<argv, argi, err, usage, consumed>>

vars == <<tree, root, excludeList, onlyList, maxDepth, showSizes,
          currentTheme, pc, stack, out, fmtBytes, fmtOut, fmtScale,
          parseVars, failed>>

traversalVars == <<tree, root, excludeList, onlyList, maxDepth, showSizes,
                   currentTheme, pc, stack, out>>

(***************************************************************************)
(* Bounds of the model.                                                    *)
(***************************************************************************)
\* largest number of pattern tokens given after -e and -o together
MaxTokens == 2
\* largest depth ceiling given after -d
MaxCeil == 3
\* direct calls of formatSize take every byte count up to this one
MaxFmtSmall == 40

(***************************************************************************)
(* std::string                                                             *)
(***************************************************************************)
\* the value of a character, as char_traits<char>::lt orders them
CharCode(c) ==
    CASE c = "." -> 46
      [] c = "/" -> 47
      [] c = "a" -> 97
      [] c = "b" -> 98
      [] c = "c" -> 99
      [] c = "g" -> 103
      [] c = "t" -> 116

\* s.find('/') != std::string::npos
HasSlash(s) == \E i \in 1..Len(s) : s[i] = "/"

\* s.rfind(p, 0) == 0
StartsWith(s, p) == Len(p) <= Len(s) /\ SubSeq(s, 1, Len(p)) = p

\* std::string operator<
RECURSIVE StrLess(_, _)
StrLess(s, t) ==
    IF t = <<>> THEN FALSE
    ELSE IF s = <<>> THEN TRUE
    ELSE IF s[1] # t[1] THEN CharCode(s[1]) < CharCode(t[1])
    ELSE StrLess(Tail(s), Tail(t))

(***************************************************************************)
(* fs::path                                                                *)
(***************************************************************************)
DotName == <<".">>
DotDotName == <<".", ".">>

\* path::filename()
Filename(p) == IF p = <<>> THEN <<>> ELSE p[Len(p)]

\* path::parent_path()
ParentPath(p) == SubSeq(p, 1, Len(p) - 1)

\* path::generic_string() of a relative path: the components joined by '/'
RECURSIVE GenericString(_)
GenericString(p) ==
    IF p = <<>> THEN <<>>
    ELSE IF Len(p) = 1 THEN p[1]
    ELSE p[1] \o <<"/">> \o GenericString(Tail(p))

\* fs::weakly_canonical of an absolute path in a tree without symbolic
\* links: "." components dropped, ".." components resolved
RECURSIVE WeaklyCanonicalFrom(_, _)
WeaklyCanonicalFrom(done, rest) ==
    IF rest = <<>> THEN done
    ELSE IF rest[1] = DotName THEN WeaklyCanonicalFrom(done, Tail(rest))
    ELSE IF rest[1] = DotDotName
         THEN WeaklyCanonicalFrom(
                  IF Len(done) > 1 THEN SubSeq(done, 1, Len(done) - 1) ELSE done,
                  Tail(rest))
    ELSE WeaklyCanonicalFrom(Append(done, rest[1]), Tail(rest))

WeaklyCanonical(p) == WeaklyCanonicalFrom(<<>>, p)

\* length of the longest common prefix of two paths (std::mismatch)
RECURSIVE Mismatch(_, _)
Mismatch(p, q) ==
    IF p = <<>> \/ q = <<>> \/ p[1] # q[1] THEN 0
    ELSE 1 + Mismatch(Tail(p), Tail(q))

\* the count n of path::lexically_relative over the rest of the base
RECURSIVE RelCount(_)
RelCount(b) ==
    IF b = <<>> THEN 0
    ELSE (IF b[1] = DotDotName THEN -1
          ELSE IF b[1] # <<>> /\ b[1] # DotName THEN 1
          ELSE 0) + RelCount(Tail(b))

RECURSIVE DotDots(_)
DotDots(n) == IF n <= 0 THEN <<>> ELSE <<DotDotName>> \o DotDots(n - 1)

\* p.lexically_relative(base), both absolute
LexicallyRelative(p, base) ==
    LET k == Mismatch(p, base)
        a == SubSeq(p, k + 1, Len(p))
        b == SubSeq(base, k + 1, Len(base))
        n == RelCount(b)
    IN  IF a = <<>> /\ b = <<>> THEN <<DotName>>
        ELSE IF n < 0 THEN <<>>
        ELSE IF n = 0 /\ (a = <<>> \/ a[1] = <<>>) THEN <<DotName>>
        ELSE DotDots(n) \o a

\* fs::path operator<: the components compared in turn
RECURSIVE PathLess(_, _)
PathLess(p, q) ==
    IF q = <<>> THEN FALSE
    ELSE IF p = <<>> THEN TRUE
    ELSE IF p[1] # q[1] THEN StrLess(p[1], q[1])
    ELSE PathLess(Tail(p), Tail(q))

\* mutant: the vector is left in the order of the iterator
Unsorted(v) == v

\* the index of the least path of a vector
MinIndex(w) ==
    CHOOSE i \in 1..Len(w) : \A j \in 1..Len(w) : ~PathLess(w[j], w[i])

\* the vector sorted: its least path, then the others sorted
Sorted[w \in Seq(Seq(Seq(STRING)))] ==
    IF w = <<>> THEN <<>>
    ELSE [m \in 1..Len(w) |->
             <<w[m]>> \o Sorted[[j \in 1..(Len(w) - 1) |->
                                    IF j < m THEN w[j] ELSE w[j + 1]]]
         ][MinIndex(w)]

\* std::sort of a vector of paths
SortPaths(v) == Sorted[v]

(***************************************************************************)
(* The file system: a tree is a record of the directories, the regular     *)
(* files (absolute paths) and the byte length of each regular file.        *)
(***************************************************************************)
NameT == <<"t">>
NameA == <<"a">>
NameB == <<"b">>
NameC == <<"c">>
NameAB == <<"a", "b">>
NameG == <<".", "g">>

RootPath == <<NameT>>

Under(rel) == RootPath \o rel

\* t/ with .g/a  a/.g  a/ab  a/b/a/b  a/b/c  ab/b  b
Tree1 ==
    [dirs  |-> {RootPath, Under(<<NameG>>), Under(<<NameA>>), Under(<<NameA, NameB>>),
                Under(<<NameA, NameB, NameA>>), Under(<<NameAB>>)},
     size  |-> (Under(<<NameG, NameA>>) :> 5) @@
               (Under(<<NameA, NameG>>) :> 7) @@
               (Under(<<NameA, NameAB>>) :> 500) @@
               (Under(<<NameA, NameB, NameA, NameB>>) :> 2097152) @@
               (Under(<<NameA, NameB, NameC>>) :> 2000) @@
               (Under(<<NameAB, NameB>>) :> 12) @@
               (Under(<<NameB>>) :> 1536)]

\* t/ with a/b (12 bytes) and .g/c (5 bytes)
Tree2 ==
    [dirs  |-> {RootPath, Under(<<NameA>>), Under(<<NameG>>)},
     size  |-> (Under(<<NameA, NameB>>) :> 12) @@
               (Under(<<NameG, NameC>>) :> 5)]

\* t/ with the chain b/a/b/a/ (an empty directory four levels down) and c
Tree3 ==
    [dirs  |-> {RootPath, Under(<<NameB>>), Under(<<NameB, NameA>>),
                Under(<<NameB, NameA, NameB>>), Under(<<NameB, NameA, NameB, NameA>>)},
     size  |-> (Under(<<NameC>>) :> 900) @@
               (Under(<<NameB, NameA, NameC>>) :> 10240)]

Trees == {Tree1, Tree2, Tree3}

RegularFiles(t) == DOMAIN t.size
Entries(t) == t.dirs \cup RegularFiles(t)

\* no entry: what a path that cannot be resolved stands for
NoEntry == <<>>

\* the entry of the tree a path names (NoEntry or a path outside the tree
\* when there is none): the system's resolution of an absolute path, one
\* component at a time from the entry reached so far: "." stays, ".." goes to
\* the parent, a name goes down; a component after anything but a directory
\* fails
Stat(t, p) ==
    LET Walk[cur \in Seq(Seq(STRING)), rest \in Seq(Seq(STRING))] ==
            IF rest = <<>> THEN cur
            ELSE IF cur # <<>> /\ cur \notin t.dirs THEN NoEntry
            ELSE IF rest[1] = DotName THEN Walk[cur, Tail(rest)]
            ELSE IF rest[1] = DotDotName
                 THEN Walk[IF Len(cur) > 1 THEN SubSeq(cur, 1, Len(cur) - 1) ELSE cur,
                           Tail(rest)]
            ELSE Walk[Append(cur, rest[1]), Tail(rest)]
    IN  Walk[<<>>, p]

\* mutant: every path is taken to exist
ExistsAlways(t, p) == TRUE

\* fs::exists
Exists(t, p) == Stat(t, p) \in Entries(t)

\* fs::is_directory
IsDirectory(t, p) == Stat(t, p) \in t.dirs

\* fs::is_regular_file
IsRegularFile(t, p) == Stat(t, p) \in RegularFiles(t)

\* fs::file_size of a regular file
FileSize(t, p) == t.size[Stat(t, p)]

\* the entries of the tree in the directory d
ChildrenOf(t, d) == {q \in Entries(t) : Len(q) = Len(d) + 1 /\ ParentPath(q) = d}

\* what fs::directory_iterator(dir) enumerates, each entry as dir / name:
\* the children of the directory dir resolves to, nothing for a non-directory
DirectoryEntries(t, dir) ==
    UNION {{Append(dir, Filename(q)) : q \in ChildrenOf(t, d)} :
              d \in {Stat(t, dir)} \cap t.dirs}

\* the orders in which an iterator may enumerate a set of entries
Listings(S) ==
    {v \in [1..Cardinality(S) -> S] : \A i, j \in 1..Cardinality(S) : v[i] = v[j] => i = j}


(***************************************************************************)
(* The configuration, as parseArgs leaves it.                              *)
(***************************************************************************)
\* std::nullopt: no depth ceiling
NullOpt == -1

\* the pattern tokens given after -e and -o:  a  b  c  ab  .  a/b  a/b/a
Tokens ==
    {NameA, NameB, NameC, NameAB, DotName,
     GenericString(<<NameA, NameB>>), GenericString(<<NameA, NameB, NameA>>)}

Themes == {"classic", "round"}

\* branch(isLast)
branch(isLast) ==
    IF currentTheme = "round"
    THEN (IF isLast THEN "R-- " ELSE "+-- ")
    ELSE (IF isLast THEN "L-- " ELSE "+-- ")

\* mutant: the continuation cell is a bar whatever isLast is
verticalAlwaysBar(isLast) == "|   "

\* vertical(isLast)
vertical(isLast) ==
    IF currentTheme = "round"
    THEN (IF isLast THEN "    " ELSE "|   ")
    ELSE (IF isLast THEN "    " ELSE "|   ")

(***************************************************************************)
(* Sizes                                                                   *)
(***************************************************************************)
\* fileSizeSafe(p): <<hasSize, bytes>>
fileSizeSafe(p) ==
    IF ~IsRegularFile(tree, p) THEN <<FALSE, 0>> ELSE <<TRUE, FileSize(tree, p)>>

\* what fs::recursive_directory_iterator(dir) enumerates
RECURSIVE RecursiveDirectoryEntries(_, _)
RecursiveDirectoryEntries(t, dir) ==
    LET here == DirectoryEntries(t, dir)
    IN  here \cup UNION {RecursiveDirectoryEntries(t, c) : c \in here}

\* the loop of dirSizeRecursive over what the iterator enumerates: the sizes
\* of the regular files added up
TotalOf(t, S) ==
    LET Total[X \in SUBSET Seq(Seq(Seq(STRING)))] ==
            IF X = {} THEN 0
            ELSE LET e == CHOOSE x \in X : TRUE
                 IN  (IF IsRegularFile(t, e) THEN FileSize(t, e) ELSE 0) + Total[X \ {e}]
    IN  Total[S]

\* mutant: the directory is walked with a plain directory_iterator
dirSizeOneLevel(dir) == TotalOf(tree, DirectoryEntries(tree, dir))

\* dirSizeRecursive(dir)
dirSizeRecursive(dir) == TotalOf(tree, RecursiveDirectoryEntries(tree, dir))

units == <<"B", "KiB", "MiB", "GiB", "TiB", "PiB", "EiB">>

\* the last index of units: the loop of formatSize stops there
MaxUnit == 6

\* 1024^e, for e up to 3
Pow1024(e) == IF e = 0 THEN 1 ELSE IF e = 1 THEN 1024
              ELSE IF e = 2 THEN 1048576 ELSE 1073741824

\* m * 1024^up is a value of std::uintmax_t (64 bits)
FitsUintmax(m, up) ==
    \/ m = 0
    \/ up <= 3
    \/ up = 4 /\ m < 16777216
    \/ up = 5 /\ m < 16384
    \/ up = 6 /\ m < 16

\* the while loop of formatSize: value is m * 1024^up / div, exactly (a
\* double holds m below 2^53 times a power of two, and its quotients by
\* 1024, exactly)
RECURSIVE ScaleLoop(_, _, _, _)
ScaleLoop(m, up, div, idx) ==
    IF idx < MaxUnit /\ (IF up > 0 THEN m >= 1 ELSE (m \div div) >= 1024)
    THEN IF up > 0 THEN ScaleLoop(m, up - 1, div, idx + 1)
                   ELSE ScaleLoop(m, up, div * 1024, idx + 1)
    ELSE <<up, div, idx>>

\* mutant: the digits past the precision are cut off
RoundDown(num, den) == num \div den

\* num / den rounded to an integer as printf rounds a double: to nearest,
\* an exact tie to even
RoundNearest(num, den) ==
    LET q == num \div den
        r == num % den
    IN  IF 2 * r > den \/ (2 * r = den /\ q % 2 = 1) THEN q + 1 ELSE q

\* mutant: the decimal place is printed for plain bytes too
formatSizeNoUnitCheck(m, up) ==
    LET sc  == ScaleLoop(m, up, 1, 0)
        div == sc[2]
        idx == sc[3]
    IN  IF m < 10 * div
        THEN LET tenths == RoundNearest(m * 10, div)
             IN  ToString(tenths \div 10) \o "." \o ToString(tenths % 10)
                     \o " " \o units[idx + 1]
        ELSE ToString(RoundNearest(m, div)) \o " " \o units[idx + 1]

\* formatSize(m * 1024^up), for m below 2^27 and a product of 64 bits (the
\* loop then ends with every factor 1024 of the argument divided out)
formatSizeAt(m, up) ==
    LET sc  == ScaleLoop(m, up, 1, 0)
        div == sc[2]
        idx == sc[3]
    IN  IF (m < 10 * div) /\ idx > 0
        THEN LET tenths == RoundNearest(m * 10, div)
             IN  ToString(tenths \div 10) \o "." \o ToString(tenths % 10)
                     \o " " \o units[idx + 1]
        ELSE ToString(RoundNearest(m, div)) \o " " \o units[idx + 1]

\* formatSize(bytes), for bytes below 2^27
formatSize(bytes) == formatSizeAt(bytes, 0)

\* the size shown for p: nothing without -s or when the size is unknown
SizeOf(p) ==
    IF ~showSizes THEN [sized |-> FALSE, bytes |-> 0]
    ELSE IF IsDirectory(tree, p) THEN [sized |-> TRUE, bytes |-> dirSizeRecursive(p)]
    ELSE [sized |-> fileSizeSafe(p)[1], bytes |-> fileSizeSafe(p)[2]]

sizeSuffix(sz) == IF sz.sized THEN " (" \o formatSize(sz.bytes) \o ")" ELSE ""

(***************************************************************************)
(* The filter of printTree                                                 *)
(***************************************************************************)
\* rel: the entry's canonical path relative to root, as a generic string
RelOf(p) == GenericString(LexicallyRelative(WeaklyCanonical(p), root))

\* mutant: "." is looked up like any other name
IsHiddenAsToken(filename) == filename = DotName /\ filename \in excludeList

\* hidden via "-e ."
IsHidden(filename) ==
    filename # <<>> /\ DotName \in excludeList /\ filename[1] = "."

\* mutant: a pattern without '/' is compared with the relative path
IsExcludedAtTopOnly(filename, rel) ==
    /\ excludeList # {}
    /\ \E ex \in excludeList :
          /\ ex # DotName
          /\ rel = ex \/ StartsWith(rel, ex \o <<"/">>)

\* the part of a string after its last '/'
RECURSIVE LastSegment(_)
LastSegment(s) ==
    IF ~HasSlash(s) THEN s
    ELSE LastSegment(SubSeq(s, 2, Len(s)))

\* mutant: every pattern is compared by its last name with the basename
IsExcludedByLastName(filename, rel) ==
    /\ excludeList # {}
    /\ \E ex \in excludeList : ex # DotName /\ filename = LastSegment(ex)

\* the exclude loop
IsExcluded(filename, rel) ==
    /\ excludeList # {}
    /\ \E ex \in excludeList :
          /\ ex # DotName
          /\ IF HasSlash(ex)
             THEN rel = ex \/ StartsWith(rel, ex \o <<"/">>)
             ELSE filename = ex

\* mutant: the prefix tests lack the separator
IsAllowedNoSeparator(rel) ==
    \/ onlyList = {}
    \/ \E allowed \in onlyList : StartsWith(rel, allowed) \/ StartsWith(allowed, rel)

\* mutant: the test for an ancestor of a deeper match is missing
IsAllowedNoAncestor(rel) ==
    \/ onlyList = {}
    \/ \E allowed \in onlyList : rel = allowed \/ StartsWith(rel, allowed \o <<"/">>)

\* the only loop
IsAllowed(rel) ==
    \/ onlyList = {}
    \/ \E allowed \in onlyList :
          \/ rel = allowed \/ StartsWith(rel, allowed \o <<"/">>)
          \/ StartsWith(allowed, rel \o <<"/">>)

\* mutant: the only test comes first and a match skips the exclude test
KeepsIncludeFirst(p) ==
    /\ ~IsHidden(Filename(p))
    /\ IF onlyList # {}
       THEN IsAllowed(RelOf(p))
       ELSE ~IsExcluded(Filename(p), RelOf(p))

\* one pass of the collecting loop: whether the entry is pushed back
Keeps(p) ==
    /\ ~IsHidden(Filename(p))
    /\ ~IsExcluded(Filename(p), RelOf(p))
    /\ IsAllowed(RelOf(p))

\* mutant: a directory the filter rejects is looked into, and its children
\* that pass the filter are collected in its place
CollectEntriesThrough(listing) ==
    LET rejected == {listing[k] : k \in {h \in 1..Len(listing) :
                                            ~Keeps(listing[h])
                                                /\ IsDirectory(tree, listing[h])}}
        inner == {c \in UNION {DirectoryEntries(tree, d) : d \in rejected} : Keeps(c)}
    IN  SortPaths(SelectSeq(listing, Keeps) \o (CHOOSE v \in Listings(inner) : TRUE))

\* the vector entries after the collecting loop over a listing and std::sort
CollectEntries(listing) == SortPaths(SelectSeq(listing, Keeps))

(***************************************************************************)
(* main and printTree                                                      *)
(***************************************************************************)
Frame(current, prefix, depth) ==
    [current |-> current, prefix |-> prefix, depth |-> depth,
     stage |-> "enter", entries |-> <<>>, i |-> 1]

Line(p, prefix, glyph) ==
    LET Sized[sz \in [sized : BOOLEAN, bytes : Nat]] ==
            [path |-> p, name |-> Filename(p), dir |-> IsDirectory(tree, p),
             prefix |-> prefix, glyph |-> glyph,
             sized |-> sz.sized, bytes |-> sz.bytes, suffix |-> sizeSuffix(sz)]
    IN  Sized[SizeOf(p)]

Top == stack[Len(stack)]

\* mutant: the limit is tested with > instead of >=
DepthLimitOffByOne(depth) == maxDepth # NullOpt /\ depth > maxDepth

\* the depth limit at the head of printTree
DepthLimitReached(depth) == maxDepth # NullOpt /\ depth >= maxDepth

\* mutant: the call never leaves the stack
PopNothing == stack

Pop == SubSeq(stack, 1, Len(stack) - 1)

Init ==
    /\ tree \in Trees
    /\ root = RootPath
    /\ excludeList \in SUBSET Tokens
    /\ onlyList \in SUBSET Tokens
    /\ Cardinality(excludeList) + Cardinality(onlyList) <= MaxTokens
    /\ maxDepth \in {NullOpt} \cup 0..MaxCeil
    /\ showSizes \in BOOLEAN
    /\ currentTheme \in Themes
    /\ pc = "start"
    /\ stack = <<>>
    /\ out = <<>>
    /\ fmtBytes = 0
    /\ fmtOut = ""
    /\ fmtScale = 0
    /\ argv = <<>>
    /\ argi = 1
    /\ err = <<>>
    /\ usage = FALSE
    /\ consumed = <<>>
    /\ failed = {}

\* main after parseArgs: the root line, then printTree(root, root)
Main ==
    /\ pc = "start"
    /\ out' = <<[Line(root, <<>>, "") EXCEPT !.dir = TRUE]>>
    /\ stack' = <<Frame(root, <<>>, 0)>>
    /\ pc' = "run"
    /\ UNCHANGED <<tree, root, excludeList, onlyList, maxDepth, showSizes,
                   currentTheme, fmtBytes, fmtOut, fmtScale, parseVars, failed>>

\* printTree up to its printing loop: the depth limit, the collecting loop
\* over the directory in whatever order the iterator lists it, the sort
PrintTreeEnter ==
    /\ pc = "run"
    /\ Top.stage = "enter"
    /\ \/ /\ DepthLimitReached(Top.depth)
          /\ stack' = Pop
          /\ pc' = IF Pop = <<>> THEN "done" ELSE pc
       \/ /\ ~DepthLimitReached(Top.depth)
          /\ \E listing \in Listings(DirectoryEntries(tree, Top.current)) :
                stack' = [stack EXCEPT ![Len(stack)] =
                             [@ EXCEPT !.stage = "loop",
                                       !.entries = CollectEntries(listing)]]
          /\ pc' = pc
    /\ UNCHANGED <<tree, root, excludeList, onlyList, maxDepth, showSizes,
                   currentTheme, out, fmtBytes, fmtOut, fmtScale, parseVars, failed>>

\* one pass of the printing loop: the line of entries[i] and, for a
\* directory, the recursive call
PrintTreeStep ==
    /\ pc = "run"
    /\ Top.stage = "loop"
    /\ Top.i <= Len(Top.entries)
    /\ LET e      == Top.entries[Top.i]
           isLast == (Top.i = Len(Top.entries))
           caller == [stack EXCEPT ![Len(stack)] = [@ EXCEPT !.i = @ + 1]]
       IN  /\ out' = Append(out, Line(e, Top.prefix, branch(isLast)))
           /\ stack' = IF IsDirectory(tree, e)
                       THEN Append(caller, Frame(e, Append(Top.prefix, vertical(isLast)),
                                                 Top.depth + 1))
                       ELSE caller
    /\ UNCHANGED <<tree, root, excludeList, onlyList, maxDepth, showSizes,
                   currentTheme, pc, fmtBytes, fmtOut, fmtScale, parseVars, failed>>

\* the printing loop is over: printTree returns; main returns 0 after the
\* outermost call
PrintTreeReturn ==
    /\ pc = "run"
    /\ Top.stage = "loop"
    /\ Top.i > Len(Top.entries)
    /\ stack' = Pop
    /\ pc' = IF Pop = <<>> THEN "done" ELSE pc
    /\ UNCHANGED <<tree, root, excludeList, onlyList, maxDepth, showSizes,
                   currentTheme, out, fmtBytes, fmtOut, fmtScale, parseVars, failed>>

Next == Main \/ PrintTreeEnter \/ PrintTreeStep \/ PrintTreeReturn

Spec == Init /\ [][Next]_vars

\* the run as the process executes it: main and printTree keep taking their
\* next step for as long as there is one
SpecLive == Spec /\ WF_vars(Next)

(***************************************************************************)
(* formatSize called on its own                                            *)
(***************************************************************************)
\* every small byte count, and around each unit boundary and each change of
\* the printed form
FmtInputs ==
    0..MaxFmtSmall
    \cup {500, 900, 1000, 1023, 1024, 1025, 1075, 1076, 1280, 1536, 1792, 2000, 2047, 2048}
    \cup {10188, 10189, 10239, 10240, 10241, 11264, 11776, 1048063, 1048064, 1048575}
    \cup {1048576, 1572864, 2097152, 10485760, 10433331, 104857600, 134217727}

InitFmt ==
    /\ tree = Tree2
    /\ root = RootPath
    /\ excludeList = {}
    /\ onlyList = {}
    /\ maxDepth = NullOpt
    /\ showSizes = TRUE
    /\ currentTheme = "classic"
    /\ pc = "format"
    /\ stack = <<>>
    /\ out = <<>>
    /\ fmtBytes \in FmtInputs
    /\ fmtOut = ""
    /\ fmtScale = 0
    /\ argv = <<>>
    /\ argi = 1
    /\ err = <<>>
    /\ usage = FALSE
    /\ consumed = <<>>
    /\ failed = {}

FormatSizeCall ==
    /\ pc = "format"
    /\ fmtOut = ""
    /\ fmtOut' = formatSize(fmtBytes)
    /\ UNCHANGED <<traversalVars, fmtBytes, fmtScale, parseVars, failed>>

NextFmt == FormatSizeCall

SpecFmt == InitFmt /\ [][NextFmt]_vars

\* formatSize called once on fmtBytes * 1024^fmtScale
InitFmtWide ==
    /\ tree = Tree2
    /\ root = RootPath
    /\ excludeList = {}
    /\ onlyList = {}
    /\ maxDepth = NullOpt
    /\ showSizes = TRUE
    /\ currentTheme = "classic"
    /\ pc = "formatwide"
    /\ stack = <<>>
    /\ out = <<>>
    /\ fmtBytes \in FmtInputs
    /\ fmtOut = ""
    /\ fmtScale \in 0..MaxUnit
    /\ FitsUintmax(fmtBytes, fmtScale)
    /\ argv = <<>>
    /\ argi = 1
    /\ err = <<>>
    /\ usage = FALSE
    /\ consumed = <<>>
    /\ failed = {}

FormatSizeWideCall ==
    /\ pc = "formatwide"
    /\ fmtOut = ""
    /\ fmtOut' = formatSizeAt(fmtBytes, fmtScale)
    /\ UNCHANGED <<traversalVars, fmtBytes, fmtScale, parseVars, failed>>

NextFmtWide == FormatSizeWideCall

SpecFmtWide == InitFmtWide /\ [][NextFmtWide]_vars

(***************************************************************************)
(* The traversal with I/O errors: any call on the file system may fail     *)
(***************************************************************************)
\* the most entries whose enumeration fails in one run
MaxFaults == 1

InitIO == Init /\ tree \in {Tree2, Tree3}

\* the collecting loop when the iterator fails on its way to the k-th entry
\* (or on opening the directory, k = 1): ec is set, the condition !ec ends
\* the loop, and what was collected so far is sorted and printed
ListingFault ==
    /\ pc = "run"
    /\ Top.stage = "enter"
    /\ ~DepthLimitReached(Top.depth)
    /\ Cardinality(failed) < MaxFaults
    /\ \E listing \in Listings(DirectoryEntries(tree, Top.current)) :
         \E k \in 1..Len(listing) :
            /\ stack' = [stack EXCEPT ![Len(stack)] =
                            [@ EXCEPT !.stage = "loop",
                                      !.entries = CollectEntries(SubSeq(listing, 1, k - 1))]]
            /\ failed' = failed \cup {listing[k]}
    /\ UNCHANGED <<tree, root, excludeList, onlyList, maxDepth, showSizes,
                   currentTheme, pc, out, fmtBytes, fmtOut, fmtScale, parseVars>>

\* the collecting loop when fs::weakly_canonical fails for the k-th entry:
\* ec2 is set and the entry is passed over
CanonFault ==
    /\ pc = "run"
    /\ Top.stage = "enter"
    /\ ~DepthLimitReached(Top.depth)
    /\ Cardinality(failed) < MaxFaults
    /\ \E listing \in Listings(DirectoryEntries(tree, Top.current)) :
         \E k \in 1..Len(listing) :
            /\ stack' = [stack EXCEPT ![Len(stack)] =
                            [@ EXCEPT !.stage = "loop",
                                      !.entries = CollectEntries(
                                          SubSeq(listing, 1, k - 1)
                                              \o SubSeq(listing, k + 1, Len(listing)))]]
            /\ failed' = failed \cup {listing[k]}
    /\ UNCHANGED <<tree, root, excludeList, onlyList, maxDepth, showSizes,
                   currentTheme, pc, out, fmtBytes, fmtOut, fmtScale, parseVars>>

\* the printing loop when fs::is_directory(entries[i]), called without an
\* error_code, fails: it throws, nothing catches, std::terminate ends the
\* process (the prefix and glyph already written are not recorded)
IsDirectoryThrows ==
    /\ pc = "run"
    /\ Top.stage = "loop"
    /\ Top.i <= Len(Top.entries)
    /\ pc' = "aborted"
    /\ UNCHANGED <<tree, root, excludeList, onlyList, maxDepth, showSizes,
                   currentTheme, stack, out, fmtBytes, fmtOut, fmtScale,
                   parseVars, failed>>

\* the printing loop with -s when the recursive_directory_iterator of
\* dirSizeRecursive fails while advancing: operator++ of the range-for
\* throws, nothing catches, std::terminate ends the process
DirSizeThrows ==
    /\ pc = "run"
    /\ Top.stage = "loop"
    /\ Top.i <= Len(Top.entries)
    /\ showSizes
    /\ IsDirectory(tree, Top.entries[Top.i])
    /\ DirectoryEntries(tree, Top.entries[Top.i]) # {}
    /\ pc' = "aborted"
    /\ UNCHANGED <<tree, root, excludeList, onlyList, maxDepth, showSizes,
                   currentTheme, stack, out, fmtBytes, fmtOut, fmtScale,
                   parseVars, failed>>

NextIO ==
    \/ Main \/ PrintTreeEnter \/ PrintTreeStep \/ PrintTreeReturn
    \/ ListingFault \/ CanonFault \/ IsDirectoryThrows \/ DirSizeThrows

SpecIO == InitIO /\ [][NextIO]_vars

(***************************************************************************)
(* main from its command line: parseArgs, the root, the traversal          *)
(***************************************************************************)
\* the longest command line: argc - 1
MaxArgs == 4

TokHelp == <<"h", "e", "l", "p">>
FlagE == <<"-", "e">>
FlagO == <<"-", "o">>
FlagD == <<"-", "d">>
FlagT == <<"-", "t">>
FlagS == <<"-", "s">>
TokClassic == <<"c", "l", "a", "s", "s", "i", "c">>
TokRound == <<"r", "o", "u", "n", "d">>
TokTwo == <<"2">>

\* twenty digits: more than an unsigned long of 64 bits holds
TokHuge == [k \in 1..20 |-> "9"]

\* the arguments tried:  help -e -o -d -t -s b .. 2 99999999999999999999 round
ArgTokens ==
    {TokHelp, FlagE, FlagO, FlagD, FlagT, FlagS, NameB, DotDotName,
     TokTwo, TokHuge, TokRound}

\* fs::current_path(): the directory t/a of Tree1
CurrentPath == Under(<<NameA>>)

\* argv[i][0] == '-'
StartsWithDash(tok) == tok # <<>> /\ tok[1] = "-"

Digits == <<"0", "1", "2", "3", "4", "5", "6", "7", "8", "9">>

\* std::isdigit
IsDigit(c) == \E d \in 1..10 : Digits[d] = c

DigitValue(c) == (CHOOSE d \in 1..10 : Digits[d] = c) - 1

\* std::all_of(depthStr.begin(), depthStr.end(), isdigit)
AllDigits(str) == \A k \in 1..Len(str) : IsDigit(str[k])

\* ULONG_MAX, 2^64 - 1, in decimal
UlongMax ==
    <<"1", "8", "4", "4", "6", "7", "4", "4", "0", "7", "3", "7", "0", "9",
      "5", "5", "1", "6", "1", "5">>

RECURSIVE StripZeros(_)
StripZeros(str) ==
    IF Len(str) > 1 /\ str[1] = "0" THEN StripZeros(Tail(str)) ELSE str

\* std::stoul of a string of digits does not throw std::out_of_range
StoulFits(str) ==
    LET d == StripZeros(str)
    IN  \/ Len(d) < Len(UlongMax)
        \/ /\ Len(d) = Len(UlongMax)
           /\ \A k \in 1..Len(d) :
                  DigitValue(d[k]) > DigitValue(UlongMax[k])
                      => \E h \in 1..(k - 1) : DigitValue(d[h]) < DigitValue(UlongMax[h])

\* the value std::stoul returns for a string of at most nine digits
RECURSIVE Stoul(_, _)
Stoul(str, acc) ==
    IF str = <<>> THEN acc ELSE Stoul(Tail(str), acc * 10 + DigitValue(str[1]))

\* fs::path(token): the components between the '/' characters
RECURSIVE SplitPath(_, _)
SplitPath(str, name) ==
    IF str = <<>> THEN (IF name = <<>> THEN <<>> ELSE <<name>>)
    ELSE IF str[1] = "/" THEN <<name>> \o SplitPath(Tail(str), <<>>)
    ELSE SplitPath(Tail(str), Append(name, str[1]))

\* fs::absolute of a relative argument: current_path() / argument
Absolute(tok) == CurrentPath \o SplitPath(tok, <<>>)

\* i + 1 >= argc || argv[i + 1][0] == '-'
MissingValue(i) == i + 1 > Len(argv) \/ StartsWithDash(argv[i + 1])

\* the index at which  while (++i < argc && argv[i][0] != '-')  ends
CollectStop(i) ==
    CHOOSE j \in (i + 1)..(Len(argv) + 1) :
        /\ j > Len(argv) \/ StartsWithDash(argv[j])
        /\ \A h \in (i + 1)..(j - 1) : ~StartsWithDash(argv[h])

\* what the loop inserts
Collected(i) == {argv[h] : h \in (i + 1)..(CollectStop(i) - 1)}

\* mutant: the index is not stepped back after the collecting loop
ResumeAtNext(stop) == stop + 1

\* the next index the for loop reads after a collecting loop that ended at
\* stop: --i, then the ++i of the for
ResumeAt(stop) == (stop - 1) + 1

\* the arguments read, each with the role it was read in
Read(from, to, role) == [h \in 1..(to - from + 1) |-> <<from + h - 1, role>>]

InitMain ==
    /\ tree = Tree1
    /\ root = <<>>
    /\ excludeList = {}
    /\ onlyList = {}
    /\ maxDepth = NullOpt
    /\ showSizes = FALSE
    /\ currentTheme = "classic"
    /\ pc = "parse"
    /\ stack = <<>>
    /\ out = <<>>
    /\ fmtBytes = 0
    /\ fmtOut = ""
    /\ fmtScale = 0
    /\ argv \in UNION {[1..n -> ArgTokens] : n \in 0..MaxArgs}
    /\ argi = 1
    /\ err = <<>>
    /\ usage = FALSE
    /\ consumed = <<>>
    /\ failed = {}

\* what parseArgs and the head of main leave alone
beyondParse == <<tree, stack, out, fmtBytes, fmtOut, fmtScale, argv, failed>>

\* arg == "help": the usage text, return false, main returns 1
ParseHelp ==
    /\ pc = "parse" /\ argi <= Len(argv)
    /\ argv[argi] = TokHelp
    /\ usage' = TRUE
    /\ pc' = "exit1"
    /\ consumed' = Append(consumed, <<argi, "help">>)
    /\ UNCHANGED <<beyondParse, root, excludeList, onlyList, maxDepth, showSizes,
                   currentTheme, argi, err>>

\* arg == "-e"
ParseExclude ==
    /\ pc = "parse" /\ argi <= Len(argv)
    /\ argv[argi] = FlagE
    /\ IF MissingValue(argi)
       THEN /\ err' = Append(err, "Missing argument after '-e'")
            /\ pc' = "exit1"
            /\ consumed' = Append(consumed, <<argi, "flag">>)
            /\ UNCHANGED <<excludeList, argi>>
       ELSE /\ excludeList' = excludeList \cup Collected(argi)
            /\ argi' = ResumeAt(CollectStop(argi))
            /\ consumed' = Append(consumed, <<argi, "flag">>)
                              \o Read(argi + 1, CollectStop(argi) - 1, "exclude")
            /\ UNCHANGED <<err, pc>>
    /\ UNCHANGED <<beyondParse, root, onlyList, maxDepth, showSizes, currentTheme,
                   usage>>

\* arg == "-o"
ParseOnly ==
    /\ pc = "parse" /\ argi <= Len(argv)
    /\ argv[argi] = FlagO
    /\ IF MissingValue(argi)
       THEN /\ err' = Append(err, "Missing argument after '-o'")
            /\ pc' = "exit1"
            /\ consumed' = Append(consumed, <<argi, "flag">>)
            /\ UNCHANGED <<onlyList, argi>>
       ELSE /\ onlyList' = onlyList \cup Collected(argi)
            /\ argi' = ResumeAt(CollectStop(argi))
            /\ consumed' = Append(consumed, <<argi, "flag">>)
                              \o Read(argi + 1, CollectStop(argi) - 1, "only")
            /\ UNCHANGED <<err, pc>>
    /\ UNCHANGED <<beyondParse, root, excludeList, maxDepth, showSizes,
                   currentTheme, usage>>

\* arg == "-d"
ParseDepth ==
    /\ pc = "parse" /\ argi <= Len(argv)
    /\ argv[argi] = FlagD
    /\ IF MissingValue(argi)
       THEN /\ err' = Append(err, "Missing argument after '-d'")
            /\ pc' = "exit1"
            /\ consumed' = Append(consumed, <<argi, "flag">>)
            /\ UNCHANGED <<maxDepth, argi>>
       ELSE LET depthStr == argv[argi + 1]
            IN  /\ consumed' = consumed \o <<<<argi, "flag">>, <<argi + 1, "depth">>>>
                /\ IF depthStr = <<>> \/ ~AllDigits(depthStr)
                   THEN /\ err' = Append(err, "Depth must be a non-negative integer")
                        /\ pc' = "exit1"
                        /\ UNCHANGED <<maxDepth, argi>>
                   ELSE IF ~StoulFits(depthStr)
                   THEN /\ err' = Append(err, "Failed to parse depth value")
                        /\ pc' = "exit1"
                        /\ UNCHANGED <<maxDepth, argi>>
                   ELSE /\ maxDepth' = Stoul(depthStr, 0)
                        /\ argi' = argi + 2
                        /\ UNCHANGED <<err, pc>>
    /\ UNCHANGED <<beyondParse, root, excludeList, onlyList, showSizes,
                   currentTheme, usage>>

\* arg == "-t"
ParseTheme ==
    /\ pc = "parse" /\ argi <= Len(argv)
    /\ argv[argi] = FlagT
    /\ IF MissingValue(argi)
       THEN /\ err' = Append(err, "Missing argument after '-t'")
            /\ pc' = "exit1"
            /\ consumed' = Append(consumed, <<argi, "flag">>)
            /\ UNCHANGED <<currentTheme, argi>>
       ELSE LET theme == argv[argi + 1]
            IN  /\ consumed' = consumed \o <<<<argi, "flag">>, <<argi + 1, "theme">>>>
                /\ IF theme = TokClassic \/ theme = TokRound
                   THEN /\ currentTheme' = IF theme = TokClassic THEN "classic"
                                                                  ELSE "round"
                        /\ argi' = argi + 2
                        /\ UNCHANGED <<err, pc>>
                   ELSE /\ err' = Append(err, "Unknown theme")
                        /\ pc' = "exit1"
                        /\ UNCHANGED <<currentTheme, argi>>
    /\ UNCHANGED <<beyondParse, root, excludeList, onlyList, maxDepth, showSizes,
                   usage>>

\* arg == "-s"
ParseSizes ==
    /\ pc = "parse" /\ argi <= Len(argv)
    /\ argv[argi] = FlagS
    /\ showSizes' = TRUE
    /\ argi' = argi + 1
    /\ consumed' = Append(consumed, <<argi, "flag">>)
    /\ UNCHANGED <<beyondParse, root, excludeList, onlyList, maxDepth,
                   currentTheme, pc, err, usage>>

\* any other argument: the directory path if none was given yet, else nothing
ParseRoot ==
    /\ pc = "parse" /\ argi <= Len(argv)
    /\ argv[argi] \notin {TokHelp, FlagE, FlagO, FlagD, FlagT, FlagS}
    /\ root' = IF root = <<>> THEN Absolute(argv[argi]) ELSE root
    /\ argi' = argi + 1
    /\ consumed' = Append(consumed, <<argi, IF root = <<>> THEN "root" ELSE "ignored">>)
    /\ UNCHANGED <<beyondParse, excludeList, onlyList, maxDepth, showSizes,
                   currentTheme, pc, err, usage>>

\* the for loop is over: the check of parseArgs after it, then main takes the
\* current directory for a root not given and tests that the root exists
ParseEnd ==
    /\ pc = "parse" /\ argi > Len(argv)
    /\ IF /\ excludeList = {} /\ onlyList = {} /\ Len(argv) > 0
          /\ \E k \in 1..Len(argv) : argv[k] = FlagE \/ argv[k] = FlagO
       THEN /\ err' = Append(err, "Missing argument after '-e' or '-o'")
            /\ pc' = "exit1"
            /\ root' = root
       ELSE /\ root' = IF root = <<>> THEN CurrentPath ELSE root
            /\ IF Exists(tree, root')
               THEN pc' = "start" /\ err' = err
               ELSE pc' = "exit1" /\ err' = Append(err, "The specified path does not exist")
    /\ UNCHANGED <<beyondParse, excludeList, onlyList, maxDepth, showSizes,
                   currentTheme, argi, usage, consumed>>

NextMain ==
    \/ ParseHelp \/ ParseExclude \/ ParseOnly \/ ParseDepth \/ ParseTheme
    \/ ParseSizes \/ ParseRoot \/ ParseEnd
    \/ Main \/ PrintTreeEnter \/ PrintTreeStep \/ PrintTreeReturn

SpecMain == InitMain /\ [][NextMain]_vars

(***************************************************************************)
(* Vocabulary of the properties.  These definitions describe the tree and  *)
(* the output; they use nothing of the filter.                             *)
(***************************************************************************)
\* the entries of the tree below the root
Below == Entries(tree) \ {root}

\* the number of directory levels of an entry below the root
Level(e) == Len(e) - Len(root)

\* the directory names from the root down to the entry, joined with '/'
RelBelowRoot(e) == GenericString(SubSeq(e, Len(root) + 1, Len(e)))

\* the entry and its ancestors below the root
UpTo(e) == {SubSeq(e, 1, k) : k \in (Len(root) + 1)..Len(e)}

\* the entries strictly below e
Inside(e) == {d \in Below : Len(d) > Len(e) /\ SubSeq(d, 1, Len(e)) = e}

\* the entries that have a line of their own (the root line is line 1)
Printed == {out[i].path : i \in 2..Len(out)}

\* the parent's listing was filtered: the parent is the root or has a line
ParentListed(e) == ParentPath(e) = root \/ ParentPath(e) \in Printed

\* r is p or lies below p
AtOrUnder(r, p) == r = p \/ StartsWith(r, p \o <<"/">>)

\* an exclude pattern matches the entry: the hidden rule for ".", the
\* basename for a pattern without '/', the path or subtree for one with '/'
ExcludeMatches(e) ==
    \E p \in excludeList :
        \/ p = DotName /\ Filename(e)[1] = "."
        \/ p # DotName /\ ~HasSlash(p) /\ Filename(e) = p
        \/ HasSlash(p) /\ AtOrUnder(RelBelowRoot(e), p)

\* an include pattern names the entry or a directory above it
IncludeMatches(e) == \E p \in onlyList : AtOrUnder(RelBelowRoot(e), p)

\* with an include set: r is an include target, inside one, or an ancestor
\* of one
Related(r) ==
    \E p \in onlyList :
        r = p \/ StartsWith(r, p \o <<"/">>) \/ StartsWith(p, r \o <<"/">>)

\* within the depth ceiling
WithinCeiling(e) == maxDepth = NullOpt \/ Level(e) <= maxDepth

Done == pc = "done"

(***************************************************************************)
(* Properties                                                              *)
(***************************************************************************)
\* C1: exclude always wins: no line is ever printed for an entry that an
\* exclude pattern matches (by basename, by relative path or subtree, or by
\* the hidden rule), whatever the include set holds.
ExcludeAlwaysWins ==
    \A i \in 2..Len(out) : ~ExcludeMatches(out[i].path)

\* C1 witness: a finished run in which an entry matched by an include
\* pattern and by an exclude pattern was listed with its parent and has no
\* line.
ExcludeAlwaysWinsWitness ==
    /\ Done
    /\ \E e \in Below :
          /\ ExcludeMatches(e) /\ IncludeMatches(e)
          /\ ParentListed(e)
          /\ e \notin Printed

\* C2: for an exclude pattern without '/', no printed entry has that
\* basename, at any depth.
BasenameExcludedAnywhere ==
    \A i \in 2..Len(out) :
        \A p \in excludeList : ~HasSlash(p) => out[i].name # p

\* C2 witness: a finished run where an entry three or more levels down has
\* the basename of an exclude pattern, its parent was printed, and it was not.
BasenameExcludedAnywhereWitness ==
    /\ Done
    /\ \E e \in Below :
          /\ Level(e) >= 3
          /\ Filename(e) \in excludeList /\ ~HasSlash(Filename(e))
          /\ ParentPath(e) \in Printed
          /\ e \notin Printed

\* only exclude patterns with '/' are active: no include, no ceiling
OnlyPathExcludes ==
    /\ excludeList # {}
    /\ \A p \in excludeList : HasSlash(p)
    /\ onlyList = {}
    /\ maxDepth = NullOpt

\* C3: with only exclude patterns containing '/', the entries without a line
\* are exactly those whose relative path is a pattern or lies below one.
PathExcludeExact ==
    (Done /\ OnlyPathExcludes) =>
        Printed = {e \in Below :
                      ~\E p \in excludeList : AtOrUnder(RelBelowRoot(e), p)}

\* C3 witness: a finished run where the entry at the pattern's path has no
\* line while an entry of the same basename elsewhere has one.
PathExcludeExactWitness ==
    /\ Done /\ OnlyPathExcludes
    /\ \E e \in Below, d \in Below :
          /\ RelBelowRoot(e) \in excludeList
          /\ e \notin Printed
          /\ d # e /\ Filename(d) = Filename(e)
          /\ d \in Printed

\* C4: with a non-empty include set, every printed entry is an include
\* target, inside one, or an ancestor of one.
OnlyRelatedPrinted ==
    onlyList # {} =>
        \A i \in 2..Len(out) : Related(RelBelowRoot(out[i].path))

\* C4 witness: a finished run with an include set that printed an ancestor,
\* a target and an entry inside it, and left a child of the root out.
OnlyRelatedPrintedWitness ==
    /\ Done /\ onlyList # {}
    /\ \E i, j, k \in 2..Len(out) :
          /\ RelBelowRoot(out[j].path) \in onlyList
          /\ out[i].path \in UpTo(out[j].path) \ {out[j].path}
          /\ out[k].path \in Inside(out[j].path)
    /\ \E e \in Below : Level(e) = 1 /\ e \notin Printed

\* p is an include pattern naming an existing entry e two or more levels
\* down, and no exclude pattern matches e or an ancestor of e
DeepTarget(p, e) ==
    /\ p \in onlyList
    /\ e \in Below /\ RelBelowRoot(e) = p
    /\ Level(e) >= 2
    /\ \A q \in UpTo(e) : ~ExcludeMatches(q)

\* C5 as stated: for a deep include target that no exclude pattern hides and
\* no ceiling cuts (nothing at or below the target lies beyond the ceiling),
\* every ancestor, the target and everything below it is printed.
DeepTargetAllBelowPrinted ==
    Done =>
        \A p \in onlyList : \A e \in Below :
            (DeepTarget(p, e) /\ \A d \in Inside(e) \cup {e} : WithinCeiling(d))
                => (UpTo(e) \cup Inside(e)) \subseteq Printed

\* C5 amended: the ancestors and the target are printed, and below the
\* target every entry that lies within the ceiling and is not hidden by an
\* exclude pattern matching it or a directory between the target and it.
DeepTargetVisible ==
    Done =>
        \A p \in onlyList : \A e \in Below :
            (DeepTarget(p, e) /\ WithinCeiling(e))
                => /\ UpTo(e) \subseteq Printed
                   /\ \A d \in Inside(e) :
                         (WithinCeiling(d) /\ \A q \in UpTo(d) : ~ExcludeMatches(q))
                             => d \in Printed

\* C5 witness: a finished run with an include target three levels down that
\* was printed with its two ancestors and with what lies below it.
DeepTargetVisibleWitness ==
    /\ Done
    /\ \E p \in onlyList : \E e \in Below :
          /\ DeepTarget(p, e) /\ Level(e) = 3
          /\ UpTo(e) \subseteq Printed
          /\ Inside(e) # {} /\ Inside(e) \subseteq Printed

\* C6 as stated: with a single include pattern without '/', no exclude
\* pattern and no ceiling, every entry with that basename, at any depth, is
\* printed with its ancestors and everything below it.
IncludeByBasename ==
    (Done /\ excludeList = {} /\ maxDepth = NullOpt) =>
        \A p \in onlyList : \A e \in Below :
            (~HasSlash(p) /\ Filename(e) = p)
                => (UpTo(e) \cup Inside(e)) \subseteq Printed

\* C7: the printed entries are those every level of whose path passes the
\* filter, cut at the ceiling: with a ceiling d exactly the entries among
\* them at most d levels down, without one all of them, with d = 0 none.
CeilingCutsExactly ==
    Done =>
        Printed = {e \in Below : WithinCeiling(e) /\ \A q \in UpTo(e) : Keeps(q)}

\* C7 witness: a finished run with ceiling 2 over a tree holding an entry
\* four levels down that the filter passes, its grandparent printed.
CeilingCutsExactlyWitness ==
    /\ Done /\ maxDepth = 2
    /\ \E e \in Below :
          /\ Level(e) = 4
          /\ \A q \in UpTo(e) : Keeps(q)
          /\ SubSeq(e, 1, Len(root) + 2) \in Printed
          /\ e \notin Printed

\* a name on the way from the root to the entry starts with '.'
HasHiddenPart(e) == \E q \in UpTo(e) : Filename(q)[1] = "."

\* the exclude patterns other than "." leave the entry alone
OtherExcludesPass(e) ==
    \A p \in excludeList \ {DotName} :
        IF HasSlash(p) THEN ~AtOrUnder(RelBelowRoot(e), p) ELSE Filename(e) # p

\* C8: with "." excluded, no printed entry has a name starting with '.' on
\* its path; and "." rejects nothing else: once the run is over, every entry
\* without such a name that the other patterns and the ceiling let through,
\* level by level, is printed.
HiddenRuleOnly ==
    DotName \in excludeList =>
        /\ \A i \in 2..Len(out) : ~HasHiddenPart(out[i].path)
        /\ Done =>
              \A e \in Below :
                  (/\ ~HasHiddenPart(e)
                   /\ WithinCeiling(e)
                   /\ \A q \in UpTo(e) :
                         /\ OtherExcludesPass(q)
                         /\ onlyList # {} => Related(RelBelowRoot(q)))
                      => e \in Printed

\* C8 witness: a finished run with "." excluded over a tree with a hidden
\* directory that is not empty and a hidden file two levels down, in which
\* the directory next to the hidden file was printed.
HiddenRuleOnlyWitness ==
    /\ Done /\ DotName \in excludeList
    /\ \E h \in Below : Level(h) = 1 /\ Filename(h)[1] = "." /\ Inside(h) # {}
    /\ \E h \in Below, e \in Printed :
          /\ Level(h) = 2 /\ Filename(h)[1] = "."
          /\ ParentPath(h) \in Printed
          /\ ParentPath(e) = ParentPath(h)

\* the sum of the byte lengths of a set of regular files
RECURSIVE SumOfSizes(_)
SumOfSizes(F) ==
    IF F = {} THEN 0
    ELSE LET f == CHOOSE x \in F : TRUE IN tree.size[f] + SumOfSizes(F \ {f})

\* the regular files anywhere below a directory
FilesBelow(d) ==
    {f \in RegularFiles(tree) : Len(f) > Len(d) /\ SubSeq(f, 1, Len(d)) = d}

\* C9: with sizes shown, the size on a directory's line (the root line
\* included) is the sum over all regular files below it, a value of the tree
\* alone: no pattern and no ceiling enters it.
DirectorySizeIsTrueTotal ==
    showSizes =>
        \A i \in 1..Len(out) :
            out[i].dir =>
                /\ out[i].sized
                /\ out[i].bytes = SumOfSizes(FilesBelow(out[i].path))
                /\ out[i].suffix =
                       " (" \o formatSize(SumOfSizes(FilesBelow(out[i].path))) \o ")"

\* C9 witness: a finished run showing sizes in which a printed directory
\* below the root holds a regular file that has no line.
DirectorySizeIsTrueTotalWitness ==
    /\ Done /\ showSizes
    /\ \E i \in 2..Len(out) :
          /\ out[i].dir
          /\ out[i].bytes > 0
          /\ \E f \in FilesBelow(out[i].path) : f \notin Printed

\* C10 as stated: 500, 2000 and 2097152 bytes format as "500 B", "2.0 KiB"
\* and "2 MiB".
FormatScenarioAsStated ==
    fmtOut # "" =>
        /\ fmtBytes = 500 => fmtOut = "500 B"
        /\ fmtBytes = 2000 => fmtOut = "2.0 KiB"
        /\ fmtBytes = 2097152 => fmtOut = "2 MiB"

\* C10 amended: 500, 2000 and 2097152 bytes format as "500 B", "2.0 KiB"
\* and "2.0 MiB".
FormatScenario ==
    fmtOut # "" =>
        /\ fmtBytes = 500 => fmtOut = "500 B"
        /\ fmtBytes = 2000 => fmtOut = "2.0 KiB"
        /\ fmtBytes = 2097152 => fmtOut = "2.0 MiB"

\* C10 witness: formatSize has returned for 2097152 bytes.
FormatScenarioWitness == fmtBytes = 2097152 /\ fmtOut = "2.0 MiB"

\* fmtBytes * 1024^fmtScale < 1024^e
BelowPow(e) ==
    IF e <= fmtScale THEN fmtBytes = 0
    ELSE e - fmtScale >= 3 \/ fmtBytes < Pow1024(e - fmtScale)

\* how often the byte count can be divided by 1024 before it is below 1024,
\* six at most
Divisions ==
    CHOOSE n \in 0..6 :
        /\ n = 6 \/ BelowPow(n + 1)
        /\ \A j \in 0..(n - 1) : ~BelowPow(j + 1)

\* the byte count after that many divisions is fmtBytes / ScaledDen
ScaledDen == IF Divisions >= fmtScale THEN Pow1024(Divisions - fmtScale) ELSE 1

Dist(a, b) == IF a >= b THEN a - b ELSE b - a

\* x is num / den rounded to an integer
IsRounded(x, num, den) == Dist(x * den, num) <= den \div 2

\* C11: formatSize names the unit by the number of divisions by 1024 (while
\* the value is at least 1024, six at most) and prints the scaled value
\* rounded to one decimal place when it is below 10 after a division, rounded
\* to an integer otherwise; 1536, 10240 and 900 bytes give "1.5 KiB",
\* "10 KiB" and "900 B".
FormatSizeRule ==
    fmtOut # "" =>
        /\ IF fmtBytes < 10 * ScaledDen /\ Divisions > 0
           THEN \E t \in 0..100 :
                    /\ IsRounded(t, fmtBytes * 10, ScaledDen)
                    /\ fmtOut = ToString(t \div 10) \o "." \o ToString(t % 10)
                                    \o " " \o units[Divisions + 1]
           ELSE \E x \in 0..1024 :
                    /\ IsRounded(x, fmtBytes, ScaledDen)
                    /\ fmtOut = ToString(x) \o " " \o units[Divisions + 1]
        /\ fmtScale = 0 /\ fmtBytes = 1536 => fmtOut = "1.5 KiB"
        /\ fmtScale = 0 /\ fmtBytes = 10240 => fmtOut = "10 KiB"
        /\ fmtScale = 0 /\ fmtBytes = 900 => fmtOut = "900 B"

\* C11 witness: formatSize has returned for 1536 * 1024^5 bytes, six
\* divisions taken.
FormatSizeRuleWitness ==
    fmtScale = 5 /\ fmtBytes = 1536 /\ fmtOut = "1.5 EiB"

\* the lines of the entries of one directory level: the children of dir
SameLevel(i, j) == ParentPath(out[i].path) = ParentPath(out[j].path)

\* a name comes before another in character order
NameBefore(a, b) ==
    \E k \in 1..(Len(b)) :
        /\ k <= Len(a) + 1
        /\ \A h \in 1..(k - 1) : a[h] = b[h]
        /\ k = Len(a) + 1 \/ CharCode(a[k]) < CharCode(b[k])

\* line i is the final line of its level
FinalOfLevel(i) == \A j \in (i + 1)..Len(out) : ~SameLevel(i, j)

LastBranch == IF currentTheme = "round" THEN "R-- " ELSE "L-- "

\* C15: the lines of one directory level appear in ascending character order
\* of their names, whatever the kinds of the entries; every line followed by
\* another of its level carries the middle glyph, and once the run is over the
\* final line of each level, and only that one, carries the last-branch glyph
\* of the theme.
SortedLevels ==
    /\ \A i \in 2..Len(out) : \A j \in (i + 1)..Len(out) :
            SameLevel(i, j) =>
                /\ NameBefore(out[i].name, out[j].name)
                /\ out[i].glyph = "+-- "
    /\ Done => \A i \in 2..Len(out) :
                   FinalOfLevel(i) <=> out[i].glyph = LastBranch

\* C15 witness: a run is over in which a level lists a directory after a
\* file and another a file after a directory.
SortedLevelsWitness ==
    /\ Done
    /\ currentTheme = "round"
    /\ \E i, j \in 2..Len(out) : i < j /\ SameLevel(i, j)
                                    /\ ~out[i].dir /\ out[j].dir
    /\ \E i, j \in 2..Len(out) : i < j /\ SameLevel(i, j)
                                    /\ out[i].dir /\ ~out[j].dir

\* the line of the ancestor of line i at level j below the root
AncestorLine(i, j) ==
    CHOOSE h \in 2..Len(out) :
        out[h].path = SubSeq(out[i].path, 1, Len(root) + j)

\* C19: the prefix of a line k levels below the root's children has exactly k
\* cells; cell j is four spaces only if no later line belongs to the level of
\* the ancestor at level j, and, once the run is over, a bar and three spaces
\* exactly when the ancestor's line was not the final one of its level; in
\* both themes.
PrefixCells ==
    \A i \in 2..Len(out) :
        /\ Len(out[i].prefix) = Level(out[i].path) - 1
        /\ \A j \in 1..Len(out[i].prefix) :
              /\ out[i].prefix[j] \in {"|   ", "    "}
              /\ out[i].prefix[j] = "    " => FinalOfLevel(AncestorLine(i, j))
              /\ Done => (out[i].prefix[j] = "|   "
                              <=> ~FinalOfLevel(AncestorLine(i, j)))

\* C19 witness: a run in the round theme is over that printed a line three
\* levels down with a bar, a blank and a bar as its cells.
PrefixCellsWitness ==
    /\ Done
    /\ currentTheme = "round"
    /\ \E i \in 2..Len(out) : out[i].prefix = <<"|   ", "    ", "|   ">>

\* no two lines are for the same entry
NoEntryTwice ==
    \A i \in 1..Len(out) : \A j \in (i + 1)..Len(out) :
        out[i].path # out[j].path

\* C20: on every finite tree without symbolic links and for every
\* configuration the traversal started by main terminates, and no entry is
\* ever printed twice.
TraversalTerminates == <>Done /\ []NoEntryTwice

\* C20 witness: a run without any filter is over: the whole tree has been
\* printed, each entry once.
TraversalTerminatesWitness ==
    /\ Done
    /\ excludeList = {} /\ onlyList = {} /\ maxDepth = NullOpt
    /\ Printed = Below
    /\ Len(out) = Cardinality(Below) + 1

\* the children the collecting loops have visited: those of the directories
\* whose calls are past their listing
Visited ==
    UNION {DirectoryEntries(tree, stack[k].current) :
              k \in {h \in 1..Len(stack) : stack[h].stage = "loop"}}

\* the names of the directories from the root down to the entry, and the
\* entry's own
NamesFromRoot(c) ==
    SubSeq(Stat(tree, c), Len(Stat(tree, root)) + 1, Len(Stat(tree, c)))

\* C17 as stated: whatever form the root argument took, the relative path of
\* every child visited is the names from the root down to the child joined
\* with '/', and never starts with "..".
RelativePathFromRoot ==
    \A c \in Visited :
        /\ RelOf(c) = GenericString(NamesFromRoot(c))
        /\ ~StartsWith(RelOf(c), DotDotName)

\* the process has ended, and with which code
Exited == pc \in {"done", "exit1"}
ExitCode == IF pc = "done" THEN 0 ELSE 1

\* C12 as stated: once `help` is reached the usage text is printed, no
\* directory is listed, no line is printed, and the process exits with code 0.
HelpExitsZero ==
    usage => /\ out = <<>> /\ stack = <<>>
             /\ Exited /\ ExitCode = 0

\* the index and the role of the k-th argument read
IndexRead(k) == consumed[k][1]
RoleRead(k) == consumed[k][2]
ReadAs(role) == {k \in 1..Len(consumed) : RoleRead(k) = role}

\* a flag that takes a value was read at the end of the arguments or before
\* a token starting with '-'
FlagWithoutValue ==
    \E k \in ReadAs("flag") :
        /\ argv[IndexRead(k)] \in {FlagE, FlagO, FlagD, FlagT}
        /\ \/ IndexRead(k) = Len(argv)
           \/ argv[IndexRead(k) + 1][1] = "-"

\* the value read for -d is not all digits or does not fit
BadDepth ==
    \E k \in ReadAs("depth") :
        ~AllDigits(argv[IndexRead(k)]) \/ ~StoulFits(argv[IndexRead(k)])

\* the value read for -t is neither classic nor round
BadTheme ==
    \E k \in ReadAs("theme") : argv[IndexRead(k)] \notin {TokClassic, TokRound}

\* the arguments are read and the root path names nothing
RootMissing ==
    pc # "parse" /\ root # <<>> /\ Stat(tree, root) \notin Entries(tree)

\* C13: every usage error (a flag without its value, a -d value that is not
\* all digits or does not fit, an unknown theme) and a root that does not
\* exist end the process with code 1 before printTree is called: no root
\* line and no tree line is written; nothing is reported without that exit.
UsageErrorExitsOne ==
    /\ FlagWithoutValue \/ BadDepth \/ BadTheme \/ RootMissing
           => Exited /\ ExitCode = 1
    /\ err # <<>> => Exited /\ ExitCode = 1
    /\ Exited /\ ExitCode = 1 => out = <<>> /\ stack = <<>>

\* C13 witness: -d with a number of twenty digits has ended the process with
\* code 1 and a diagnostic, nothing printed.
UsageErrorExitsOneWitness ==
    /\ argv = <<NameB, FlagD, TokHuge>>
    /\ pc = "exit1" /\ err # <<>> /\ out = <<>>

\* C18: parseArgs reads every argument once, in order: after -e (or -o) each
\* token up to the first one starting with '-' or the end goes to the exclude
\* (or include) set and to no other, and the token that stopped the
\* collection is the next one read, in its own right, never as a pattern.
ArgumentsReadOnce ==
    /\ \A k \in 1..Len(consumed) : IndexRead(k) = k
    /\ pc = "parse" => argi = Len(consumed) + 1
    /\ pc \in {"start", "run", "done"} => Len(consumed) = Len(argv)
    /\ excludeList = {argv[k] : k \in ReadAs("exclude")}
    /\ onlyList = {argv[k] : k \in ReadAs("only")}
    /\ \A k \in 1..Len(consumed) :
          /\ argv[k][1] = "-" => RoleRead(k) \in {"flag", "root", "ignored"}
          /\ RoleRead(k) = "exclude" =>
                 \/ RoleRead(k - 1) = "exclude"
                 \/ RoleRead(k - 1) = "flag" /\ argv[k - 1] = FlagE
          /\ RoleRead(k) = "only" =>
                 \/ RoleRead(k - 1) = "only"
                 \/ RoleRead(k - 1) = "flag" /\ argv[k - 1] = FlagO
          /\ k < Len(argv) /\ argv[k + 1][1] # "-" =>
                 /\ RoleRead(k) = "exclude" \/ (RoleRead(k) = "flag" /\ argv[k] = FlagE)
                        => k < Len(consumed) /\ RoleRead(k + 1) = "exclude"
                 /\ RoleRead(k) = "only" \/ (RoleRead(k) = "flag" /\ argv[k] = FlagO)
                        => k < Len(consumed) /\ RoleRead(k + 1) = "only"

\* C18 witness: -e b -s has been read: b is excluded and -s, which stopped
\* the collection, has switched the sizes on.
ArgumentsReadOnceWitness ==
    /\ argv = <<FlagE, NameB, FlagS>>
    /\ pc = "start"
    /\ excludeList = {NameB} /\ showSizes

\* C14 as stated: once the traversal has begun no I/O error on an entry
\* aborts the run: the process is never ended by an error, it exits with
\* code 0.
NoFaultAborts == pc # "aborted"

\* C16 as stated: when enumerating one child of a directory fails, only that
\* child is skipped: once the run is over every other child of a listed
\* directory that passes the filter has its line, whether the iterator
\* lists it before or after the failing one.
OnlyFailedChildSkipped ==
    Done => \A c \in Below :
                ParentListed(c) /\ WithinCeiling(c) /\ Keeps(c) /\ c \notin failed
                    => c \in Printed

\* line h is the line of the directory immediately enclosing line i: the
\* parent of its entry, printed before it as a directory, with nothing but
\* lines from inside that directory in between
EnclosingLine(h, i) ==
    /\ h < i
    /\ out[h].path = ParentPath(out[i].path)
    /\ out[h].dir
    /\ \A j \in (h + 1)..(i - 1) : out[j].path \in Inside(out[h].path)

\* the entry is cut off: excluded, not included, or beyond the depth ceiling
CutOff(e) ==
    \/ ExcludeMatches(e)
    \/ onlyList # {} /\ ~Related(RelBelowRoot(e))
    \/ ~WithinCeiling(e)

\* C21: an entry below the root has a line only if its parent is the root or
\* the line of its parent, a directory line, immediately encloses it; so
\* nothing at or below a directory that is excluded, not included or cut by
\* the depth ceiling ever appears, even if on its own it passes the filter:
\* with the directory a excluded and a/b included, neither a nor anything
\* below it is printed.
OnlyBelowPrintedParent ==
    /\ \A i \in 2..Len(out) :
          /\ out[i].path \in Below
          /\ \/ ParentPath(out[i].path) = root
             \/ \E h \in 2..(i - 1) : EnclosingLine(h, i)
    /\ \A e \in Printed : \A d \in UpTo(e) : ~CutOff(d)
    /\ excludeList = {NameA} /\ onlyList = {GenericString(<<NameA, NameB>>)}
           => \A e \in Printed : Under(<<NameA>>) \notin UpTo(e)

\* C21 witness: a run with the directory a excluded and a/b included is over;
\* the tree has a/b/c, which passes the filter on its own, and no line but
\* the root's was printed.
OnlyBelowPrintedParentWitness ==
    /\ Done
    /\ excludeList = {NameA} /\ onlyList = {GenericString(<<NameA, NameB>>)}
    /\ Under(<<NameA, NameB, NameC>>) \in Below
    /\ Keeps(Under(<<NameA, NameB, NameC>>))
    /\ Len(out) = 1

====
